---- MODULE Spec2Model ----
(***************************************************************************)
(* Blendora: the recipe listing (index), the recipe page (recipe_detail)   *)
(* and the ingredient filter (filter_recipes) of src/app.py, over the      *)
(* SQLite catalog that init_db declares.                                   *)
(*                                                                         *)
(* A string is a sequence of one-character strings, so that str.strip and  *)
(* str.split act on it as they do in Python.                               *)
(***************************************************************************)
EXTENDS Integers, Sequences, FiniteSets, TLC

\* ------------------------------------------------------------------ bounds
\* Number of rows of the recipes table.
MaxRecipes == 2

\* ------------------------------------------------- strings and their order
SP == " "
COMMA == ","

\* Code points of the characters in use (their relative order is ASCII's).
ord(c) ==
    CASE c = " " -> 32
      [] c = "," -> 44
      [] c = "B" -> 66
      [] c = "E" -> 69
      [] c = "G" -> 71
      [] c = "I" -> 73
      [] c = "K" -> 75
      [] c = "S" -> 83
      [] c = "T" -> 84
      [] OTHER -> 90

\* SQLite's BINARY collation on TEXT, the one ORDER BY name uses: s < t.
RECURSIVE Less(_, _)
Less(s, t) ==
    IF t = <<>> THEN FALSE
    ELSE IF s = <<>> THEN TRUE
    ELSE IF ord(Head(s)) # ord(Head(t)) THEN ord(Head(s)) < ord(Head(t))
    ELSE Less(Tail(s), Tail(t))

Range(seq) == {seq[i] : i \in DOMAIN seq}

\* str.strip(): drops the leading and the trailing whitespace.
RECURSIVE lstrip(_)
lstrip(s) == IF s # <<>> /\ Head(s) = SP THEN lstrip(Tail(s)) ELSE s

RECURSIVE rstrip(_)
rstrip(s) ==
    IF s # <<>> /\ s[Len(s)] = SP THEN rstrip(SubSeq(s, 1, Len(s) - 1)) ELSE s

strip(s) == rstrip(lstrip(s))

\* str.split(","): the pieces between the commas; always at least one piece.
RECURSIVE split(_)
split(s) ==
    IF \A i \in DOMAIN s : s[i] # COMMA THEN <<s>>
    ELSE LET k == CHOOSE i \in DOMAIN s :
                      s[i] = COMMA /\ \A j \in 1..(i - 1) : s[j] # COMMA
         IN  <<SubSeq(s, 1, k - 1)>> \o split(SubSeq(s, k + 1, Len(s)))

\* [v.strip() for v in values if v.strip()]
RECURSIVE strip_nonblank(_)
strip_nonblank(values) ==
    IF values = <<>> THEN <<>>
    ELSE (IF strip(Head(values)) # <<>> THEN <<strip(Head(values))>> ELSE <<>>)
         \o strip_nonblank(Tail(values))

\* parse_multi_value, given request.args.getlist(name).
parse_multi_value(raw_values) ==
    IF Len(raw_values) = 1 THEN strip_nonblank(split(raw_values[1]))
    ELSE strip_nonblank(raw_values)

\* Sequences without repetition that enumerate the set S.
RECURSIVE Perms(_)
Perms(S) ==
    IF S = {} THEN {<<>>}
    ELSE UNION {{<<x>> \o p : p \in Perms(S \ {x})} : x \in S}

\* The names of the set S (no two equal) in ascending order.
RECURSIVE Sorted(_)
Sorted(S) ==
    IF S = {} THEN <<>>
    ELSE LET m == CHOOSE x \in S : \A y \in S \ {x} : Less(x, y)
         IN  <<m>> \o Sorted(S \ {m})

\* ------------------------------------------------------------- the catalog
\* Ingredient, benefit and recipe names (seed_data has Banana, Kale, Energy,
\* Immunity, Green Strength, Sunrise Mango Boost, Tropical Green Wave among
\* its rows).
Banana == <<"B">>
Kale == <<"K">>
Energy == <<"E">>
Immunity == <<"I">>
GreenStrength == <<"G">>
SunriseMangoBoost == <<"S">>
TropicalGreenWave == <<"T">>

\* rating INTEGER NOT NULL CHECK (rating BETWEEN 1 AND 5)
MinRating == 1
MaxRating == 5

\* The ingredients and benefits tables: id -> name, name UNIQUE.
IngredientsTable == (1 :> Kale) @@ (2 :> Banana)
BenefitsTable == (1 :> Immunity) @@ (2 :> Energy)

RecipeIds == 1..MaxRecipes

VARIABLES
    recipes,             \* table recipes: id -> [name]
    ingredients,         \* table ingredients: id -> name
    benefits,            \* table benefits: id -> name
    recipe_ingredients,  \* table recipe_ingredients: rows, key (recipe_id, ingredient_id)
    recipe_benefits,     \* table recipe_benefits: rows, key (recipe_id, benefit_id)
    favorite,            \* the favorite flag the specification gives a recipe;
                         \* no table of init_db stores it, no handler reads it
    request,             \* the query arguments of the last request
    response             \* what the last request rendered

catalog == <<recipes, ingredients, benefits, recipe_ingredients, recipe_benefits, favorite>>
vars == <<recipes, ingredients, benefits, recipe_ingredients, recipe_benefits, favorite,
          request, response>>

\* A recipe_ingredients row; qty_1 and qty_2 are NOT NULL texts.
IngredientLink(r, i) == [recipe_id |-> r, ingredient_id |-> i, qty_1 |-> "1/2", qty_2 |-> "1"]

\* The schema of init_db: primary keys, NOT NULL, UNIQUE and CHECK constraints.
SchemaOK ==
    /\ DOMAIN recipes \subseteq Nat \ {0}
    /\ \A i, j \in DOMAIN ingredients : ingredients[i] = ingredients[j] => i = j
    /\ \A i, j \in DOMAIN benefits : benefits[i] = benefits[j] => i = j
    /\ \A x, y \in recipe_ingredients :
           (x.recipe_id = y.recipe_id /\ x.ingredient_id = y.ingredient_id) => x = y
    /\ \A x, y \in recipe_benefits :
           (x.recipe_id = y.recipe_id /\ x.benefit_id = y.benefit_id) => x = y
    /\ \A x \in recipe_benefits : x.rating \in MinRating..MaxRating

\* ------------------------------------------------------------- the queries
\* fetch_all_ingredients: SELECT name FROM ingredients ORDER BY name.
fetch_all_ingredients == Sorted(Range(ingredients))

\* fetch_recipes: SELECT ... FROM recipes ORDER BY name.  The rows come
\* sorted by name; SQL leaves the order of rows with equal names open, so
\* every name-sorted enumeration of the table is a possible result.
RECURSIVE name_sorted(_)
name_sorted(ids) ==
    IF ids = {} THEN {<<>>}
    ELSE UNION {{<<x>> \o p : p \in name_sorted(ids \ {x})} :
                   x \in {y \in ids : \A z \in ids : ~Less(recipes[z].name, recipes[y].name)}}

fetch_recipes == name_sorted(DOMAIN recipes)

Recipe(id) == [id |-> id, name |-> recipes[id].name]

\* fetch_recipe_ingredients: the links of one recipe joined with their
\* ingredient, ordered by ingredient name, with the quantity of the servings.
fetch_recipe_ingredients(recipe_id, servings) ==
    LET rows == {x \in recipe_ingredients :
                     x.recipe_id = recipe_id /\ x.ingredient_id \in DOMAIN ingredients}
        row(name) == CHOOSE x \in rows : ingredients[x.ingredient_id] = name
        names == Sorted({ingredients[x.ingredient_id] : x \in rows})
    IN  [i \in DOMAIN names |->
            [name |-> names[i],
             qty |-> IF servings = 2 THEN row(names[i]).qty_2 ELSE row(names[i]).qty_1]]

\* fetch_recipe_benefits: the ratings of one recipe, ordered by benefit name.
fetch_recipe_benefits(recipe_id) ==
    LET rows == {x \in recipe_benefits :
                     x.recipe_id = recipe_id /\ x.benefit_id \in DOMAIN benefits}
        row(name) == CHOOSE x \in rows : benefits[x.benefit_id] = name
        names == Sorted({benefits[x.benefit_id] : x \in rows})
    IN  [i \in DOMAIN names |-> [name |-> names[i], rating |-> row(names[i]).rating]]

\* recipe_ingredient_map of filter_recipes: the inner join recipes x
\* recipe_ingredients x ingredients, grouped by recipe.  A recipe without a
\* joined row has no key in the map.
recipe_ingredient_map ==
    LET joined == {x \in recipe_ingredients :
                      x.recipe_id \in DOMAIN recipes /\ x.ingredient_id \in DOMAIN ingredients}
    IN  [r \in {x.recipe_id : x \in joined} |->
            {ingredients[x.ingredient_id] : x \in {y \in joined : y.recipe_id = r}}]

\* passes with the include test satisfied by any one included name.
passes_include_any(ingredient_names, include_set, exclude_set, have_set) ==
    /\ ~(include_set # {} /\ (include_set \cap ingredient_names) = {})
    /\ ~(exclude_set # {} /\ (exclude_set \cap ingredient_names) # {})
    /\ ~(have_set # {} /\ ~(ingredient_names \subseteq have_set))

\* passes with the exclude test inverted.
passes_exclude_inverted(ingredient_names, include_set, exclude_set, have_set) ==
    /\ ~(include_set # {} /\ ~(include_set \subseteq ingredient_names))
    /\ ~(exclude_set # {} /\ (exclude_set \cap ingredient_names) = {})
    /\ ~(have_set # {} /\ ~(ingredient_names \subseteq have_set))

\* passes with the subset test of have turned around.
passes_have_reversed(ingredient_names, include_set, exclude_set, have_set) ==
    /\ ~(include_set # {} /\ ~(include_set \subseteq ingredient_names))
    /\ ~(exclude_set # {} /\ (exclude_set \cap ingredient_names) # {})
    /\ ~(have_set # {} /\ ~(have_set \subseteq ingredient_names))

\* The test of the loop of filter_recipes on one entry of the map.
passes(ingredient_names, include_set, exclude_set, have_set) ==
    /\ ~(include_set # {} /\ ~(include_set \subseteq ingredient_names))
    /\ ~(exclude_set # {} /\ (exclude_set \cap ingredient_names) # {})
    /\ ~(have_set # {} /\ ~(ingredient_names \subseteq have_set))

\* filter_recipes: the ids of the entries that pass, as a list.  The list
\* follows the row order of a SELECT without ORDER BY, so every enumeration
\* of the passing ids is a possible result.
filter_recipes(include_ingredients, exclude_ingredients, have_ingredients) ==
    LET include_set == Range(strip_nonblank(include_ingredients))
        exclude_set == Range(strip_nonblank(exclude_ingredients))
        have_set == Range(strip_nonblank(have_ingredients))
    IN  Perms({r \in DOMAIN recipe_ingredient_map :
                  passes(recipe_ingredient_map[r], include_set, exclude_set, have_set)})

\* [recipe for recipe in recipes if recipe.id in allowed_ids]
RECURSIVE keep_allowed(_, _)
keep_allowed(rows, allowed_ids) ==
    IF rows = <<>> THEN <<>>
    ELSE (IF Head(rows) \in allowed_ids THEN <<Head(rows)>> ELSE <<>>)
         \o keep_allowed(Tail(rows), allowed_ids)

\* The listing taken in the order of the list filter_recipes returned.
filtered_listings_in_filter_order(all_recipes, filtered) == filtered

\* allowed_ids = set(filter_recipes(...)) and the list comprehension over
\* recipes: the listings index can build, one per list filter_recipes can
\* return.
filtered_listings(all_recipes, filtered) ==
    {keep_allowed(all_recipes, Range(filtered_ids)) : filtered_ids \in filtered}

recipe_card(id, servings) ==
    [recipe |-> Recipe(id),
     ingredients |-> fetch_recipe_ingredients(id, servings),
     benefits |-> fetch_recipe_benefits(id)]

\* ------------------------------------------------------------ the requests
\* Values of request.args.getlist(name): the argument absent, one value, one
\* comma-separated value, repeated values, blank values.
IncludeArgs ==
    { <<>>,
      << <<SP, "B">> >>,
      << <<"B", COMMA, SP, "K">> >> }

ExcludeArgs ==
    { <<>>,
      << <<"K", SP>> >>,
      << <<SP>>, <<>> >> }

HaveArgs ==
    { <<>>,
      << <<"B">> >>,
      << <<"K">>, <<SP, "B", SP>> >> }

\* request.args.get("servings"): None when the argument is absent.
None == "None"
ServingsArgs == {None, "2"}

\* The arguments the specification names (favoritesOnly, prioritize).
FavoritesArgs == BOOLEAN
PrioritizeArgs == { <<>>, <<Energy, Immunity>> }

\* The query strings of the requests to "/".
IndexRequests ==
    [include : IncludeArgs, exclude : ExcludeArgs, have : HaveArgs,
     servings : {None}, favoritesOnly : {FALSE}, prioritize : {<<>>}]
    \cup
    [include : {<<>>}, exclude : {<<>>, << <<"K", SP>> >>}, have : {<<>>},
     servings : ServingsArgs, favoritesOnly : FavoritesArgs, prioritize : PrioritizeArgs]

\* --------------------------------------------------------------- the state
\* Rows a recipe of the catalog is drawn from: its name, the ingredients it
\* links (ids of IngredientsTable), its favorite flag and its ratings
\* (benefit id -> rating).
NoRatings == [b \in {} |-> MinRating]

RecipeRows ==
    { [name |-> GreenStrength, links |-> {1, 2}, favorite |-> FALSE, ratings |-> NoRatings],
      [name |-> SunriseMangoBoost, links |-> {2}, favorite |-> TRUE,
       ratings |-> (2 :> MaxRating) @@ (1 :> MinRating)],
      [name |-> GreenStrength, links |-> {}, favorite |-> TRUE,
       ratings |-> (2 :> MinRating)],
      [name |-> TropicalGreenWave, links |-> {1}, favorite |-> FALSE,
       ratings |-> (1 :> MaxRating)] }

TypeOK ==
    /\ DOMAIN recipes \subseteq RecipeIds
    /\ DOMAIN favorite = DOMAIN recipes
    /\ SchemaOK

Init ==
    /\ \E n \in 1..MaxRecipes :
       \E rows \in [1..n -> RecipeRows] :
         /\ recipes = [r \in 1..n |-> [name |-> rows[r].name]]
         /\ recipe_ingredients =
                UNION {{IngredientLink(r, i) : i \in rows[r].links} : r \in 1..n}
         /\ recipe_benefits =
                UNION {{[recipe_id |-> r, benefit_id |-> b, rating |-> rows[r].ratings[b]] :
                           b \in DOMAIN rows[r].ratings} : r \in 1..n}
         /\ favorite = [r \in 1..n |-> rows[r].favorite]
    /\ ingredients = IngredientsTable
    /\ benefits = BenefitsTable
    /\ request = [view |-> "none"]
    /\ response = [view |-> "none"]

\* ------------------------------------------------------------- the handlers
\* index filtering on every request.
has_criteria_always(include, exclude, have) == TRUE

\* if include or exclude or have: the test of index before it filters.
has_criteria(include, exclude, have) == include # <<>> \/ exclude # <<>> \/ have # <<>>

\* index: GET /
index(args) ==
    LET servings == IF args.servings = "2" THEN 2 ELSE 1
        include == parse_multi_value(args.include)
        exclude == parse_multi_value(args.exclude)
        have == parse_multi_value(args.have)
        all_ingredients == fetch_all_ingredients
    IN  \E all_recipes \in fetch_recipes :
        \E filtered \in filtered_listings(all_recipes,
                                          filter_recipes(include, exclude, have)) :
            LET listed == IF has_criteria(include, exclude, have)
                          THEN filtered
                          ELSE all_recipes
            IN  /\ request' = [view |-> "index", args |-> args]
                /\ response' = [view |-> "index",
                                recipes |-> [i \in DOMAIN listed |->
                                                recipe_card(listed[i], servings)],
                                servings |-> servings, include |-> include,
                                exclude |-> exclude, have |-> have,
                                ingredients |-> all_ingredients]
                /\ UNCHANGED catalog

\* recipe_detail storing a placeholder row for an id it does not find.
recipe_detail_inserting(recipe_id, servings_arg) ==
    LET servings == IF servings_arg = "2" THEN 2 ELSE 1
    IN  /\ request' = [view |-> "recipe", recipe_id |-> recipe_id, servings |-> servings_arg]
        /\ response' =
               IF recipe_id \notin DOMAIN recipes
               THEN [view |-> "redirect"]
               ELSE [view |-> "recipe", recipe |-> Recipe(recipe_id),
                     servings |-> servings,
                     ingredients |-> fetch_recipe_ingredients(recipe_id, servings),
                     benefits |-> fetch_recipe_benefits(recipe_id)]
        /\ recipes' = IF recipe_id \notin DOMAIN recipes /\ recipe_id \in RecipeIds
                      THEN recipes @@ (recipe_id :> [name |-> GreenStrength])
                      ELSE recipes
        /\ favorite' = IF recipe_id \notin DOMAIN recipes /\ recipe_id \in RecipeIds
                       THEN favorite @@ (recipe_id :> FALSE)
                       ELSE favorite
        /\ UNCHANGED <<ingredients, benefits, recipe_ingredients, recipe_benefits>>

\* recipe_detail: GET /recipe/<recipe_id>
recipe_detail(recipe_id, servings_arg) ==
    LET servings == IF servings_arg = "2" THEN 2 ELSE 1
    IN  /\ request' = [view |-> "recipe", recipe_id |-> recipe_id, servings |-> servings_arg]
        /\ response' =
               IF recipe_id \notin DOMAIN recipes
               THEN [view |-> "redirect"]
               ELSE [view |-> "recipe", recipe |-> Recipe(recipe_id),
                     servings |-> servings,
                     ingredients |-> fetch_recipe_ingredients(recipe_id, servings),
                     benefits |-> fetch_recipe_benefits(recipe_id)]
        /\ UNCHANGED catalog

Index == \E args \in IndexRequests : index(args)

RecipeDetail ==
    \E id \in 1..(MaxRecipes + 1), s \in ServingsArgs : recipe_detail(id, s)

Next == Index \/ RecipeDetail

Spec == Init /\ [][Next]_vars

\* ---------------------------------------------------- the listing, as read
\* by the properties below
tables == <<recipes, ingredients, benefits, recipe_ingredients, recipe_benefits>>

IsListing == request.view = "index" /\ response.view = "index"

\* The ids of the recipes of the listing, in the order rendered.
ListedIds == [i \in DOMAIN response.recipes |-> response.recipes[i].recipe.id]
Listed == Range(ListedIds)

\* The criteria of the request: the trimmed non-blank names, favoritesOnly
\* and prioritize.
IncludeNames == Range(response.include)
ExcludeNames == Range(response.exclude)
HaveNames == Range(response.have)
FavoritesOnly == request.args.favoritesOnly
Prioritize == request.args.prioritize

\* The ingredient set of a recipe: the names its rows of recipe_ingredients
\* link.  Empty for a recipe without links.
IngredientSet(r) ==
    {ingredients[x.ingredient_id] : x \in {y \in recipe_ingredients : y.recipe_id = r}}

\* The rating of recipe r for the benefit named b, 0 when r is not rated for it.
RatingFor(r, b) ==
    LET rows == {x \in recipe_benefits : x.recipe_id = r /\ benefits[x.benefit_id] = b}
    IN  IF rows = {} THEN 0 ELSE (CHOOSE x \in rows : TRUE).rating

\* score(recipe): the sum of its ratings over the prioritized names.
RECURSIVE Score(_, _)
Score(r, names) ==
    IF names = <<>> THEN 0 ELSE RatingFor(r, Head(names)) + Score(r, Tail(names))

\* ---------------------------------------------------------------------- C1
\* C1: a listing requested with favoritesOnly = true contains exactly the
\* recipes whose favorite flag is true, whatever include, exclude and have are.
C1_FavoritesOnlyListsFavorites ==
    (IsListing /\ FavoritesOnly) => Listed = {r \in DOMAIN recipes : favorite[r]}

\* ---------------------------------------------------------------------- C2
\* The three tests of the specification on the ingredient set of a recipe.
MeetsCriteria(r) ==
    /\ IncludeNames = {} \/ IncludeNames \subseteq IngredientSet(r)
    /\ ExcludeNames = {} \/ ExcludeNames \cap IngredientSet(r) = {}
    /\ HaveNames = {} \/ IngredientSet(r) \subseteq HaveNames

HasCriteria == IncludeNames # {} \/ ExcludeNames # {} \/ HaveNames # {}

\* C2: when include, exclude or have is non-empty and favoritesOnly is false,
\* a recipe of the catalog is listed if and only if it meets the three tests;
\* this for every recipe, those without ingredient links included.
C2_ListedIffMeetsCriteria ==
    (IsListing /\ ~FavoritesOnly /\ HasCriteria)
        => \A r \in DOMAIN recipes : r \in Listed <=> MeetsCriteria(r)

\* ---------------------------------------------------------------------- C3
\* C3: with a non-empty include set, every listed recipe has all the included
\* names among its ingredients, and (exclude and have empty) every recipe of
\* the catalog that is not listed lacks at least one included name.
C3_IncludeSubset ==
    (IsListing /\ IncludeNames # {})
        => /\ \A r \in Listed : IncludeNames \subseteq IngredientSet(r)
           /\ (ExcludeNames = {} /\ HaveNames = {})
                  => \A r \in DOMAIN recipes \ Listed :
                         \E n \in IncludeNames : n \notin IngredientSet(r)

\* A listing filtered by include alone that keeps a recipe and removes one.
C3_Witness ==
    /\ IsListing
    /\ Cardinality(IncludeNames) = 2
    /\ ExcludeNames = {} /\ HaveNames = {}
    /\ Listed # {}
    /\ \E r \in DOMAIN recipes \ Listed : IngredientSet(r) \cap IncludeNames # {}

\* ---------------------------------------------------------------------- C4
\* C4: with a non-empty exclude set, whatever include and have are, no listed
\* recipe has an ingredient whose name is excluded.
C4_ExcludeDisjoint ==
    (IsListing /\ ExcludeNames # {})
        => \A r \in Listed : ExcludeNames \cap IngredientSet(r) = {}

\* A listing with exclude and include both given that keeps a recipe and
\* removes one that has an excluded ingredient and all the included ones.
C4_Witness ==
    /\ IsListing
    /\ ExcludeNames # {} /\ IncludeNames # {}
    /\ Listed # {}
    /\ \E r \in DOMAIN recipes \ Listed :
           /\ ExcludeNames \cap IngredientSet(r) # {}
           /\ IncludeNames \subseteq IngredientSet(r)

\* ---------------------------------------------------------------------- C5
\* C5: with a non-empty have set, whatever include and exclude are, the
\* ingredient set of every listed recipe is a subset of have.
C5_HaveSuperset ==
    (IsListing /\ HaveNames # {})
        => \A r \in Listed : IngredientSet(r) \subseteq HaveNames

\* A listing with have given that keeps a recipe and removes one that needs
\* an ingredient outside have although it shares one with have.
C5_Witness ==
    /\ IsListing
    /\ HaveNames # {}
    /\ Listed # {}
    /\ \E r \in DOMAIN recipes \ Listed :
           /\ IngredientSet(r) \cap HaveNames # {}
           /\ ~(IngredientSet(r) \subseteq HaveNames)

\* ---------------------------------------------------------------------- C6
\* C6: when include, exclude and have are all empty once trimmed and cleared
\* of blank entries, and favoritesOnly is false, the listing is the full
\* catalog: every recipe, those without ingredient links included, once.
C6_NoCriteriaListsAll ==
    (IsListing /\ ~FavoritesOnly /\ ~HasCriteria)
        => /\ Listed = DOMAIN recipes
           /\ Len(ListedIds) = Cardinality(DOMAIN recipes)

\* A listing of a request whose exclude argument holds blank values only, over
\* a catalog that has a recipe without ingredient links.
C6_Witness ==
    /\ IsListing
    /\ ~FavoritesOnly /\ ~HasCriteria
    /\ request.args.exclude # <<>>
    /\ \E r \in Listed : IngredientSet(r) = {}
    /\ Cardinality(Listed) = MaxRecipes

\* ---------------------------------------------------------------------- C7
\* C7: with prioritize non-empty, of two listed recipes with different
\* scores the one with the higher score comes first, whatever their favorite
\* flags; a recipe with score 0 stays in the listing.
C7_PriorityOrder ==
    (IsListing /\ Prioritize # <<>>)
        => /\ \A i, j \in DOMAIN ListedIds :
                  i < j => Score(ListedIds[i], Prioritize) >= Score(ListedIds[j], Prioritize)
           /\ (~FavoritesOnly /\ ~HasCriteria)
                  => \A r \in DOMAIN recipes : Score(r, Prioritize) = 0 => r \in Listed

\* ---------------------------------------------------------------------- C8
\* C8: in every listing every favorite recipe comes before every recipe that
\* is not one, and recipes with the same flag keep the order they had before:
\* by descending score if prioritize was given, by name otherwise.
C8_FavoritesFirst ==
    IsListing
        => \A i, j \in DOMAIN ListedIds :
               i < j =>
                   LET a == ListedIds[i]
                       b == ListedIds[j]
                       byName == ~Less(recipes[b].name, recipes[a].name)
                   IN  /\ favorite[a] \/ ~favorite[b]
                       /\ (favorite[a] = favorite[b]) =>
                              IF Prioritize = <<>> THEN byName
                              ELSE \/ Score(a, Prioritize) > Score(b, Prioritize)
                                   \/ Score(a, Prioritize) = Score(b, Prioritize) /\ byName

\* ---------------------------------------------------------------------- C9
\* C9: two listing requests with the same criteria against the same catalog
\* yield the same sequence of recipes, for every catalog of the schema.
C9_Determinism ==
    [][(IsListing /\ request' = request /\ response'.view = "index")
           => response'.recipes = response.recipes]_vars

\* --------------------------------------------------------------------- C10
\* C10: no listing or recipe_detail request, whatever its criteria, servings
\* and recipe id, changes the recipes, ingredients, benefits or link tables.
C10_TablesUnchanged == [][tables' = tables]_vars

\* A recipe_detail request for an id that is not in the catalog has been served.
C10_Witness ==
    /\ request.view = "recipe"
    /\ request.recipe_id \notin DOMAIN recipes
    /\ request.servings = "2"
    /\ response.view = "redirect"

\* --------------------------------------------------------------------- C11
\* s is a subsequence of t: t with some of its entries left out.
RECURSIVE IsSubsequence(_, _)
IsSubsequence(s, t) ==
    IF s = <<>> THEN TRUE
    ELSE IF t = <<>> THEN FALSE
    ELSE IF Head(s) = Head(t) THEN IsSubsequence(Tail(s), Tail(t))
    ELSE IsSubsequence(s, Tail(t))

\* C11: for every criteria the listing is a subsequence of a by-name sequence
\* fetch_recipes returns, and no recipe is listed twice, whatever the order
\* in which filter_recipes returns the ids that pass.
C11_ListingKeepsSourceOrder ==
    IsListing
        => /\ \E p \in fetch_recipes : IsSubsequence(ListedIds, p)
           /\ \A i, j \in DOMAIN ListedIds : ListedIds[i] = ListedIds[j] => i = j

\* A filtered listing of two recipes whose order by name is not their order
\* by id, so that filter_recipes can return the two ids in the other order.
C11_Witness ==
    /\ IsListing
    /\ HasCriteria
    /\ Len(ListedIds) = 2
    /\ ListedIds[1] > ListedIds[2]
    /\ Less(recipes[ListedIds[1]].name, recipes[ListedIds[2]].name)

====
